---- MODULE Spec2Model ----
(***************************************************************************)
(* Model of the process supervisor (PythonClient, src/src/pythonClient.ts) *)
(* and the monitoring state machine (StateManager,                         *)
(* src/src/stateManager.ts) of the TRAD stock monitor extension.           *)
(*                                                                         *)
(* The line codec of PythonClient (the stdout listener, processMessages)   *)
(* is modelled on its own byte stream, under CodecSpec.                    *)
(*                                                                         *)
(* One action is one run-to-completion step of the single-threaded event   *)
(* loop: an external call, a timer callback, a stdout/exit event, together *)
(* with every promise continuation (microtask) it makes runnable.          *)
(***************************************************************************)
EXTENDS Integers, Sequences, FiniteSets, TLC

(* ------------------------------ bounds --------------------------------- *)
MaxCmds == 2        \* command identifiers in use at once
MaxSessionCmds == 3 \* the same, in the runs of IsolationSpec
MaxProcs == 1       \* process objects that are alive or still referenced
MaxWorkers == 2     \* the same, in the runs of SupervisorSpec
MaxTasks == 1       \* handleProcessExit invocations in flight at once
MaxChars == 4       \* characters the worker writes to its stdout
MaxChunk == 8       \* bytes in one stdout chunk
MaxNextChars == 2   \* characters a worker spawned later writes
MaxRespawns == 1    \* workers spawned after the first
MaxConfigs == 2     \* configurations the user switches between
MaxItems == 2       \* snapshots in one list handed to handleStockData
MaxListeners == 2   \* listener functions
MaxRegs == 2        \* registrations in one listener array

(* --------------------------- program constants ------------------------- *)
maxRestarts == 5

STOPPED == "stopped"
STARTING == "starting"
RUNNING == "running"
STOPPING == "stopping"
ERROR == "error"
MonitoringState == {STOPPED, STARTING, RUNNING, STOPPING, ERROR}

Pids == 1..MaxWorkers
Configs == 1..MaxConfigs
Listeners == 1..MaxListeners

(* ------------------------------ data ----------------------------------- *)
Codes == {"A", "B"}

NoSnap == [code |-> "-", enabled |-> FALSE, profitAmount |-> 0,
           marketValue |-> 0, costBasis |-> 0]
SnapA1 == [code |-> "A", enabled |-> TRUE, profitAmount |-> 25,
           marketValue |-> 1025, costBasis |-> 1000]
SnapA2 == [code |-> "A", enabled |-> FALSE, profitAmount |-> 30,
           marketValue |-> 1030, costBasis |-> 1000]
SnapB1 == [code |-> "B", enabled |-> TRUE, profitAmount |-> -50,
           marketValue |-> 1950, costBasis |-> 2000]

\* the `data` field of a Response: missing, a non-array value, or a list
Absent == [kind |-> "absent", items |-> << >>]
NotArray == [kind |-> "notarray", items |-> << >>]
List1 == [kind |-> "list", items |-> <<SnapA1>>]
List2 == [kind |-> "list", items |-> <<SnapA2, SnapB1>>]
Payloads == {Absent, NotArray, List1, List2}

ResponseTypes == {"response", "data", "error", "status"}

NoSummary == [present |-> FALSE, totalProfit |-> 0, totalProfitPercent |-> <<0, 1>>,
              totalMarketValue |-> 0, totalCostBasis |-> 0,
              stockCount |-> 0, enabledCount |-> 0]

NoCmd == [kind |-> "none", owner |-> "none", proc |-> 0]
NoHist == [resolved |-> 0, rejected |-> 0, removed |-> 0]

VARIABLES
  \* StateManager
  state,            \* this.state
  timer,            \* this.timer # null
  stockData,        \* this.stockData, by code
  summaryData,      \* this.summaryData
  startWait,        \* pid whose exit start() awaits inside startDaemon, 0 if none
  \* PythonClient
  pythonProcess,    \* this.pythonProcess: 0 (null) or a pid
  proc,             \* pid -> "none" | "alive" | "exited"
  killed,           \* pid -> ChildProcess.killed
  pendingRequests,  \* keys of this.pendingRequests
  timeouts,         \* ids whose 10 s timer is armed
  isConnected,      \* this.isConnected
  restartCount,     \* this.restartCount
  hDelay,           \* handleProcessExit invocations inside their 1 s delay
  stopWaiters,      \* pid -> handleProcessExit invocations awaiting its exit
  disposed,         \* PythonClient.dispose() has been called
  \* commands in flight
  cmd,              \* id -> [kind, owner, proc the line was written to]
  answered,         \* ids the worker has answered
  \* history
  hist,             \* id -> times its caller was resolved / rejected and
                    \*       times its entry left pendingRequests
  stale,            \* ids with an armed timer whose Command was sent
                    \* before the last stop() that was accepted
  ev,               \* what the last step did
  \* the line codec of PythonClient
  stream,           \* the bytes the worker writes to its stdout
  fed,              \* how many of them the 'data' events have delivered
  messageBuffer,    \* this.messageBuffer
  handled,          \* the messages passed to handleResponse, in order
  cutInside,        \* some chunk ended inside a multi-byte character
  inherited,        \* what messageBuffer held at each spawn of a later worker
  \* the run
  slots,            \* process objects the run may hold at once
  cmdSlots,         \* command identifiers the run may have in use at once
  \* ConfigManager
  config,           \* this.config, as the number of a configuration
  \* StateManager, its registrations
  registered,       \* the two commands are registered (until dispose())
  stateListeners,   \* this.stateListeners, in order of registration
  updateListeners,  \* this.updateListeners, in order of registration
  \* the workers
  delivered         \* pid -> the configuration last written to that live
                    \*        worker's stdin, 0 if none

smVars == <<state, timer, stockData, summaryData, startWait>>
pcVars == <<pythonProcess, proc, killed, isConnected, restartCount, hDelay,
            stopWaiters, disposed>>
corrVars == <<pendingRequests, timeouts, cmd, answered, hist, stale>>
codecVars == <<stream, fed, messageBuffer, handled, cutInside, inherited>>
lsVars == <<stateListeners, updateListeners>>
vars == <<smVars, pcVars, corrVars, ev, codecVars, slots, cmdSlots, registered, config, lsVars, delivered>>

\* the command identifiers of the run
Ids == 1..cmdSlots

NoEv == [op |-> "init", id |-> 0, typ |-> "-", kind |-> "-", data |-> Absent,
         notifs |-> << >>,
         dataNotified |-> FALSE, completed |-> {}, pushed |-> FALSE,
         sent |-> {}, accepted |-> FALSE, terminal |-> FALSE,
         restart |-> FALSE, unexpected |-> FALSE, spawned |-> 0,
         daemon |-> "none", escaped |-> FALSE, payload |-> 0, calls |-> << >>, acts |-> << >>]

(* --------------------------- Aggregator -------------------------------- *)
RECURSIVE SumOver(_, _, _)
SumOver(S, sd, field) ==
  IF S = {} THEN 0
  ELSE LET c == CHOOSE x \in S : TRUE
       IN sd[c][field] + SumOver(S \ {c}, sd, field)

Stored(sd) == {c \in Codes : sd[c] # NoSnap}
Enabled(sd) == {c \in Stored(sd) : sd[c].enabled}

\* a calculateSummary that adds up every stored snapshot
calculateSummaryOverAll(sd) ==
  LET totalProfit == SumOver(Stored(sd), sd, "profitAmount")
      totalMarketValue == SumOver(Stored(sd), sd, "marketValue")
      totalCostBasis == SumOver(Stored(sd), sd, "costBasis")
  IN [present |-> TRUE,
      totalProfit |-> totalProfit,
      totalProfitPercent |-> IF totalCostBasis > 0
                             THEN <<totalProfit * 100, totalCostBasis>>
                             ELSE <<0, 1>>,
      totalMarketValue |-> totalMarketValue,
      totalCostBasis |-> totalCostBasis,
      stockCount |-> Cardinality(Stored(sd)),
      enabledCount |-> Cardinality(Enabled(sd))]

\* totalProfitPercent is kept as the fraction <<numerator, denominator>>
calculateSummary(sd) ==
  LET totalProfit == SumOver(Enabled(sd), sd, "profitAmount")
      totalMarketValue == SumOver(Enabled(sd), sd, "marketValue")
      totalCostBasis == SumOver(Enabled(sd), sd, "costBasis")
  IN [present |-> TRUE,
      totalProfit |-> totalProfit,
      totalProfitPercent |-> IF totalCostBasis > 0
                             THEN <<totalProfit * 100, totalCostBasis>>
                             ELSE <<0, 1>>,
      totalMarketValue |-> totalMarketValue,
      totalCostBasis |-> totalCostBasis,
      stockCount |-> Cardinality(Stored(sd)),
      enabledCount |-> Cardinality(Enabled(sd))]

\* a loop that keeps the first snapshot of a list for each code
RECURSIVE SetAllFirstWins(_, _)
SetAllFirstWins(sd, items) ==
  IF items = << >> THEN sd
  ELSE LET rest == SetAllFirstWins(sd, Tail(items))
       IN [rest EXCEPT ![Head(items).code] = Head(items)]

RECURSIVE SetAll(_, _)
SetAll(sd, items) ==
  IF items = << >> THEN sd
  ELSE SetAll([sd EXCEPT ![Head(items).code] = Head(items)], Tail(items))

\* handleStockData: [merged, stockData, summaryData]
handleStockData(sd, sm, data) ==
  IF data.kind # "list"
  THEN [merged |-> FALSE, sd |-> sd, sm |-> sm]
  ELSE LET sd2 == SetAll(sd, data.items)
       IN [merged |-> TRUE, sd |-> sd2, sm |-> calculateSummary(sd2)]

\* requestUpdate: response.data || []
requestUpdateData(data) ==
  IF data.kind = "absent" THEN [kind |-> "list", items |-> << >>] ELSE data

(* --------------------------- processes --------------------------------- *)
\* what the workers that are alive have been sent
Configured(dl, pr) == [p \in Pids |-> IF pr[p] = "alive" THEN dl[p] ELSE 0]

\* a process object nobody references any more is forgotten
Gc(pr, h) == [p \in Pids |-> IF pr[p] = "exited" /\ p # h THEN "none" ELSE pr[p]]
GcKilled(pr, kl, h) == [p \in Pids |-> IF Gc(pr, h)[p] = "none" THEN FALSE ELSE kl[p]]

FreePids(pr) == {p \in Pids : p <= slots /\ pr[p] = "none"}
NewPid(pr) == CHOOSE p \in FreePids(pr) : \A q \in FreePids(pr) : p <= q

\* sendCommand's guard: a process handle that has not been signalled
CanSend(h, kl) == h # 0 /\ ~kl[h]

\* ChildProcess.kill(): only a process that has not exited takes the signal
KillFlags(h, pr, kl) ==
  IF h # 0 /\ pr[h] = "alive" THEN [kl EXCEPT ![h] = TRUE] ELSE kl

\* startDaemon's test for stopping the previous worker first
MustStopFirst(h, kl) == h # 0 /\ ~kl[h]

Min(a, b) == IF a < b THEN a ELSE b
SetMin(S) == CHOOSE x \in S : \A y \in S : x <= y
SetMax(S) == CHOOSE x \in S : \A y \in S : y <= x

TypeOK ==
  /\ state \in MonitoringState
  /\ timer \in BOOLEAN
  /\ startWait \in 0..MaxWorkers
  /\ pythonProcess \in 0..MaxWorkers
  /\ slots \in 1..MaxWorkers
  /\ cmdSlots \in 1..MaxSessionCmds
  /\ config \in Configs
  /\ registered \in BOOLEAN
  /\ stateListeners \in Seq(Listeners) /\ Len(stateListeners) <= MaxRegs
  /\ updateListeners \in Seq(Listeners) /\ Len(updateListeners) <= MaxRegs
  /\ delivered \in [Pids -> 0..MaxConfigs]
  /\ stale \subseteq timeouts
  /\ Len(inherited) <= MaxRespawns
  /\ proc \in [Pids -> {"none", "alive", "exited"}]
  /\ killed \in [Pids -> BOOLEAN]
  /\ pendingRequests \subseteq Ids
  /\ timeouts \subseteq Ids
  /\ isConnected \in BOOLEAN
  /\ restartCount \in 0..maxRestarts
  /\ hDelay \in 0..MaxTasks
  /\ stopWaiters \in [Pids -> 0..MaxTasks]
  /\ disposed \in BOOLEAN
  /\ answered \subseteq Ids

\* the supervisor and the state machine after construction
Constructed ==
  /\ state = STOPPED
  /\ timer = FALSE
  /\ stockData = [c \in Codes |-> NoSnap]
  /\ summaryData = NoSummary
  /\ startWait = 0
  /\ pythonProcess = 0
  /\ proc = [p \in Pids |-> "none"]
  /\ killed = [p \in Pids |-> FALSE]
  /\ pendingRequests = {}
  /\ timeouts = {}
  /\ isConnected = FALSE
  /\ restartCount = 0
  /\ hDelay = 0
  /\ stopWaiters = [p \in Pids |-> 0]
  /\ disposed = FALSE
  /\ cmd = [i \in Ids |-> NoCmd]
  /\ answered = {}
  /\ hist = [i \in Ids |-> NoHist]
  /\ stale = {}
  /\ ev = NoEv
  /\ config = 1
  /\ registered = TRUE
  /\ stateListeners = << >>
  /\ updateListeners = << >>
  /\ delivered = [p \in Pids |-> 0]

\* no worker has written anything
Init ==
  /\ cmdSlots = MaxCmds
  /\ Constructed
  /\ slots = MaxProcs
  /\ stream = << >>
  /\ fed = 0
  /\ messageBuffer = << >>
  /\ handled = << >>
  /\ cutInside = FALSE
  /\ inherited = << >>

(* ------------------------- what a step did ----------------------------- *)
\* daemon: what the startDaemon call of start() did in the step: "waits" for
\* the previous worker's exit, "failed" (returned false), "started"
\* escaped: an exception left start(), stop(), refresh(), the interval
\* callback or handleConfigChange, thrown or as the rejection of the promise
\* they return.  Every listener is taken to throw each time it is called.

\* a handleConfigChange that drops the promise of sendConfig
CatchesButConfig(owner) == owner # "config"

\* the caller `owner` encloses the failure of its Command: the try/catch of
\* start(), stop(), refresh() and performUpdate(), the .catch() of
\* handleConfigChange
Catches(owner) == owner \in {"start", "stop", "refresh", "poll", "config"}

\* notifyStateListeners, notifyUpdateListeners: each call inside try/catch
notifyCatches == TRUE

Ev(op, id, typ, notifs, sent, accepted) ==
  [op |-> op, id |-> id, typ |-> typ, kind |-> "-", data |-> Absent,
   notifs |-> notifs,
   dataNotified |-> FALSE, completed |-> {}, pushed |-> FALSE,
   sent |-> sent, accepted |-> accepted, terminal |-> FALSE, restart |-> FALSE,
   unexpected |-> FALSE, spawned |-> 0, daemon |-> "none",
   escaped |-> notifs # << >> /\ ~notifyCatches, payload |-> 0, calls |-> << >>, acts |-> << >>]

(* ------------------ the correlation table and its timers --------------- *)
Cur == [pend |-> pendingRequests, tmo |-> timeouts, cmd |-> cmd,
        ans |-> answered, hist |-> hist, stale |-> stale]

\* an identifier is tracked while its entry or its timer exists or the
\* worker may still answer it
InUse(K, i) == i \in K.pend \/ i \in K.tmo \/ (K.cmd[i].proc # 0 /\ i \notin K.ans)

\* generateId() returns a fresh identifier: one whose entry and timer are
\* gone, an identifier nothing refers to before one whose Command the worker
\* never answered (that answer is then taken never to come)
FreeIds == {i \in Ids : i \notin pendingRequests /\ i \notin timeouts}
IdsLeft(n) == Cardinality(FreeIds) >= n
Unused == {i \in FreeIds : cmd[i] = NoCmd}
generateId == IF Unused # {} THEN SetMin(Unused) ELSE SetMin(FreeIds)

SetCorr(K) ==
  /\ pendingRequests' = K.pend
  /\ timeouts' = K.tmo
  /\ cmd' = [i \in Ids |-> IF InUse(K, i) THEN K.cmd[i] ELSE NoCmd]
  /\ answered' = {i \in K.ans : InUse(K, i)}
  /\ hist' = K.hist
  /\ stale' = K.stale \cap K.tmo

\* the line written to stdin reaches the worker only while it runs
WrittenTo(h, pr) == IF h # 0 /\ pr[h] = "alive" THEN h ELSE 0

\* sendCommand past its guard: arm the timer, register the callback, write
sendCommand(K, id, kind, owner, h, pr) ==
  [K EXCEPT !.pend = @ \cup {id},
            !.tmo = @ \cup {id},
            !.ans = @ \ {id},
            !.cmd[id] = [kind |-> kind, owner |-> owner, proc |-> WrittenTo(h, pr)],
            !.hist[id] = NoHist,
            !.stale = @ \ {id}]

Inc(n) == Min(n + 1, 2)

\* a callback that resolves and leaves the timer armed
CallbackLeavesTimer(K, id) ==
  [K EXCEPT !.hist[id].resolved = Inc(@)]

\* the callback sendCommand registered: clearTimeout, resolve
Callback(K, id) ==
  [K EXCEPT !.tmo = @ \ {id}, !.hist[id].resolved = Inc(@)]

\* handleResponse on a registered id: delete the entry, call the callback
Deliver(K, id) ==
  Callback([K EXCEPT !.pend = @ \ {id}, !.hist[id].removed = Inc(@)], id)

\* a timer callback that rejects and leaves the entry in the table
ExpiredKeepsEntry(K, id) ==
  [K EXCEPT !.tmo = @ \ {id}, !.hist[id].rejected = Inc(@)]

\* the timer callback of sendCommand: delete the entry, reject
Expired(K, id) ==
  [K EXCEPT !.pend = @ \ {id},
            !.tmo = @ \ {id},
            !.hist[id].removed = IF id \in K.pend THEN Inc(@) ELSE @,
            !.hist[id].rejected = Inc(@)]

\* dispose(): pendingRequests.clear()
Cleared(K) ==
  [K EXCEPT !.pend = {},
            !.hist = [i \in Ids |-> IF i \in K.pend
                                    THEN [K.hist[i] EXCEPT !.removed = Inc(@)]
                                    ELSE K.hist[i]]]

\* stop() is accepted: the Commands still waiting were sent before it
BeforeStop(K) == [K EXCEPT !.stale = K.tmo]

\* the worker process p is gone: what it had read is never answered
Lost(K, p) ==
  [K EXCEPT !.cmd = [i \in Ids |-> IF K.cmd[i].proc = p
                                    THEN [K.cmd[i] EXCEPT !.proc = 0]
                                    ELSE K.cmd[i]]]

(* ----------------------- StateManager.start() -------------------------- *)
\* configManager.getConfig(): the configuration current at the call
getConfig == config

\* a catch block that leaves the state as it is
startCatchStaysStarting == STARTING

\* the catch block of start(): setState(ERROR)
startCatch == ERROR

\* start() outside Stopped returns at once
StartIgnored ==
  /\ UNCHANGED <<codecVars, slots, cmdSlots, registered, config, lsVars, delivered>>
  /\ ~disposed
  /\ state # STOPPED
  /\ ev' = Ev("start", 0, "-", << >>, {}, FALSE)
  /\ UNCHANGED <<smVars, pcVars, corrVars>>

\* startDaemon finds a handle that was not signalled: stopDaemon, then wait
StartStopsFirst ==
  /\ UNCHANGED <<codecVars, slots, cmdSlots, registered, config, lsVars, delivered>>
  /\ ~disposed
  /\ state = STOPPED
  /\ IdsLeft(2)
  /\ MustStopFirst(pythonProcess, killed)
  /\ state' = STARTING
  /\ killed' = KillFlags(pythonProcess, proc, killed)
  /\ startWait' = pythonProcess
  /\ ev' = [Ev("start", 0, "-", <<STARTING>>, {}, TRUE) EXCEPT !.daemon = "waits"]
  /\ UNCHANGED <<timer, stockData, summaryData, pythonProcess, proc, isConnected,
                 restartCount, hDelay, stopWaiters, disposed, corrVars>>

\* child_process.spawn throws: startDaemon returns false, start() ends in Error
StartSpawnFails ==
  /\ UNCHANGED <<codecVars, slots, cmdSlots, registered, config, lsVars, delivered>>
  /\ ~disposed
  /\ state = STOPPED
  /\ IdsLeft(2)
  /\ ~MustStopFirst(pythonProcess, killed)
  /\ state' = startCatch
  /\ ev' = [Ev("start", 0, "-", <<STARTING, startCatch>>, {}, TRUE)
             EXCEPT !.daemon = "failed", !.escaped = @ \/ ~Catches("start")]
  /\ UNCHANGED <<timer, stockData, summaryData, startWait, pcVars, corrVars>>

\* spawn succeeds; set_config is written and start() awaits its Response
StartSpawns ==
  /\ UNCHANGED <<codecVars, slots, cmdSlots, registered, config, lsVars>>
  /\ ~disposed
  /\ state = STOPPED
  /\ IdsLeft(2)
  /\ ~MustStopFirst(pythonProcess, killed)
  /\ LET pr0 == Gc(proc, 0)
         kl0 == GcKilled(proc, killed, 0)
     IN /\ FreePids(pr0) # {}
        /\ LET pid == NewPid(pr0)
               pr1 == [pr0 EXCEPT ![pid] = "alive"]
           IN /\ proc' = pr1
              /\ delivered' = [Configured(delivered, pr0) EXCEPT ![pid] = getConfig]
              /\ killed' = [kl0 EXCEPT ![pid] = FALSE]
              /\ pythonProcess' = pid
              /\ SetCorr(sendCommand(Cur, generateId, "set_config", "start", pid, pr1))
  /\ isConnected' = TRUE
  /\ restartCount' = 0
  /\ state' = STARTING
  /\ ev' = [Ev("start", 0, "-", <<STARTING>>, {generateId}, TRUE)
             EXCEPT !.daemon = "started", !.payload = getConfig]
  /\ UNCHANGED <<timer, stockData, summaryData, startWait, hDelay, stopWaiters,
                 disposed>>

Start == StartIgnored \/ StartStopsFirst \/ StartSpawnFails \/ StartSpawns

(* ------------------------ StateManager.stop() -------------------------- *)
\* a stop() that reports a failed pause as Error
stopAfterPauseFailureIsError(ok) == IF ok THEN STOPPED ELSE ERROR

\* stop() past its try/catch around pause (ok: pause was answered): Stopped
stopAfterPause(ok) == STOPPED

\* a stop() that clears the interval before it looks at the state
StopIgnoredDisarms ==
  /\ UNCHANGED <<codecVars, slots, cmdSlots, registered, config, lsVars, delivered>>
  /\ ~disposed
  /\ state # RUNNING
  /\ timer' = FALSE
  /\ ev' = Ev("stop", 0, "-", << >>, {}, FALSE)
  /\ UNCHANGED <<state, stockData, summaryData, startWait, pcVars, corrVars>>

\* stop() outside Running returns at once
StopIgnored ==
  /\ UNCHANGED <<codecVars, slots, cmdSlots, registered, config, lsVars, delivered>>
  /\ ~disposed
  /\ state # RUNNING
  /\ ev' = Ev("stop", 0, "-", << >>, {}, FALSE)
  /\ UNCHANGED <<smVars, pcVars, corrVars>>

StopAccepted ==
  /\ UNCHANGED <<codecVars, slots, cmdSlots, registered, config, lsVars, delivered>>
  /\ ~disposed
  /\ state = RUNNING
  /\ IdsLeft(1)
  /\ timer' = FALSE
  /\ IF CanSend(pythonProcess, killed)
     THEN /\ state' = STOPPING
          /\ SetCorr(sendCommand(BeforeStop(Cur), generateId, "pause", "stop",
                                 pythonProcess, proc))
          /\ ev' = Ev("stop", 0, "-", <<STOPPING>>, {generateId}, TRUE)
     ELSE \* sendCommand throws, stop() logs it and goes on
          /\ state' = stopAfterPause(FALSE)
          /\ ev' = [Ev("stop", 0, "-", <<STOPPING, stopAfterPause(FALSE)>>, {}, TRUE)
                      EXCEPT !.escaped = @ \/ ~Catches("stop")]
          /\ stale' = BeforeStop(Cur).stale
          /\ UNCHANGED <<pendingRequests, timeouts, cmd, answered, hist>>
  /\ UNCHANGED <<stockData, summaryData, startWait, pcVars>>

Stop == StopIgnored \/ StopAccepted

(* --------- refresh(), the poll timer, trad.onConfigChanged ------------- *)
\* a catch block that sets Error whatever the state
performUpdateCatchAlways(st) == ERROR

\* the catch block of performUpdate: Error, but only out of Running
performUpdateCatch(st) == IF st = RUNNING THEN ERROR ELSE st

\* a catch block of refresh() that sets Error
refreshCatchSetsError(st) == ERROR

\* the catch block of refresh(): an error message, the state is left alone
refreshCatch(st) == st

\* a handleConfigChange whose catch sets Error
CaughtConfigIsError(owner, st) ==
  IF owner = "poll" THEN performUpdateCatch(st)
  ELSE IF owner = "refresh" THEN refreshCatch(st)
  ELSE IF owner = "config" THEN ERROR ELSE st

\* the state after `owner` has caught the failure of its Command
Caught(owner, st) ==
  IF owner = "poll" THEN performUpdateCatch(st)
  ELSE IF owner = "refresh" THEN refreshCatch(st) ELSE st

\* one Command for `owner`, with this payload (0: none), if sendCommand
\* accepts it
Issue(op, kind, owner, payload) ==
  /\ UNCHANGED <<codecVars, slots, cmdSlots, registered, lsVars>>
  /\ delivered' = IF CanSend(pythonProcess, killed) /\ kind = "set_config"
                     /\ proc[pythonProcess] = "alive"
                  THEN [delivered EXCEPT ![pythonProcess] = payload]
                  ELSE delivered
  /\ IdsLeft(1)
  /\ IF CanSend(pythonProcess, killed)
     THEN /\ SetCorr(sendCommand(Cur, generateId, kind, owner, pythonProcess, proc))
          /\ state' = state
          /\ ev' = [Ev(op, 0, "-", << >>, {generateId}, TRUE)
                      EXCEPT !.payload = payload]
     ELSE \* sendCommand throws; the caller's catch block runs
          /\ state' = Caught(owner, state)
          /\ ev' = [Ev(op, 0, "-",
                       IF Caught(owner, state) # state
                       THEN <<Caught(owner, state)>> ELSE << >>,
                       {}, TRUE)
                      EXCEPT !.escaped = @ \/ ~Catches(owner)]
          /\ UNCHANGED corrVars
  /\ UNCHANGED <<timer, stockData, summaryData, startWait, pcVars>>

Ignored(op) ==
  /\ UNCHANGED <<codecVars, slots, cmdSlots, registered, lsVars>>
  /\ UNCHANGED delivered
  /\ ev' = Ev(op, 0, "-", << >>, {}, FALSE)
  /\ UNCHANGED <<smVars, pcVars, corrVars>>

Refresh ==
  /\ ~disposed
  /\ UNCHANGED config
  /\ IF state = RUNNING THEN Issue("refresh", "update", "refresh", 0)
     ELSE Ignored("refresh")

\* setInterval callback of startUpdateTimer
Tick ==
  /\ timer
  /\ UNCHANGED config
  /\ IF state = RUNNING THEN Issue("tick", "update", "poll", 0) ELSE Ignored("tick")

\* saveConfig stores configuration v and runs the trad.onConfigChanged
\* command with it: handleConfigChange
ConfigChangeTo(v) ==
  /\ ~disposed
  /\ registered
  /\ config' = v
  /\ IF state = RUNNING THEN Issue("config", "set_config", "config", v)
     ELSE Ignored("config")

\* the configuration is saved again as it is
ConfigChange == ConfigChangeTo(config)

(* ------------- what the awaiting caller does on completion ------------- *)
\* owner: which await resumes; ok: resolved (TRUE) or rejected by the timeout
Cont(owner, ok, data) ==
  LET same == [state |-> state, timer |-> timer, sd |-> stockData,
               sm |-> summaryData, notifs |-> << >>, dataNotified |-> FALSE,
               poll |-> FALSE, escaped |-> ~ok /\ ~Catches(owner)]
      merged == handleStockData(stockData, summaryData, requestUpdateData(data))
      merge == [same EXCEPT !.sd = merged.sd, !.sm = merged.sm,
                            !.dataNotified = merged.merged]
  IN CASE owner = "start" ->
            \* start(): startUpdateTimer, immediate performUpdate, Running
            IF ok
            THEN IF CanSend(pythonProcess, killed)
                 THEN [same EXCEPT !.state = RUNNING, !.timer = TRUE,
                                   !.notifs = <<RUNNING>>, !.poll = TRUE]
                 ELSE [same EXCEPT !.state = performUpdateCatch(RUNNING),
                                   !.timer = TRUE,
                                   !.notifs = IF performUpdateCatch(RUNNING) = RUNNING
                                              THEN <<RUNNING>> ELSE <<RUNNING, ERROR>>,
                                   !.escaped = ~Catches("poll")]
            ELSE [same EXCEPT !.state = startCatch, !.notifs = <<startCatch>>]
       [] owner = "stop" ->
            [same EXCEPT !.state = stopAfterPause(ok),
                         !.notifs = <<stopAfterPause(ok)>>]
       [] owner = "refresh" ->
            IF ok THEN merge
            ELSE IF refreshCatch(state) # state
                 THEN [same EXCEPT !.state = refreshCatch(state),
                                   !.notifs = <<refreshCatch(state)>>]
                 ELSE same
       [] owner = "poll" ->
            IF ok THEN merge
            ELSE IF performUpdateCatch(state) # state
                 THEN [same EXCEPT !.state = ERROR, !.notifs = <<ERROR>>]
                 ELSE same
       [] OTHER -> same

\* the caller of `id` resumes on table K; its immediate poll, if any, is sent
Resume(K, c, e) ==
  /\ state' = c.state
  /\ timer' = c.timer
  /\ stockData' = c.sd
  /\ summaryData' = c.sm
  /\ c.poll => IdsLeft(1)
  /\ SetCorr(IF c.poll
             THEN sendCommand(K, generateId, "update", "poll", pythonProcess, proc)
             ELSE K)
  /\ ev' = [e EXCEPT !.notifs = c.notifs, !.dataNotified = c.dataNotified,
                     !.sent = IF c.poll THEN {generateId} ELSE {},
                     !.escaped = \/ c.escaped
                                 \/ (c.notifs # << >> \/ c.dataNotified) /\ ~notifyCatches]

(* ---------------- PythonClient.handleResponse -------------------------- *)
\* a lookup by arrival order: the oldest entry, whatever the id
LookupOldest(id) == IF pendingRequests # {} THEN {SetMin(pendingRequests)} ELSE {}

\* the entry handleResponse finds for a Response carrying `id`
Lookup(id) == IF id \in pendingRequests THEN {id} ELSE {}

\* a push branch taken only while monitoring runs
IsPushWhileRunning(typ) == typ = "data" /\ state = RUNNING

\* handleResponse's second branch: response.type === 'data'
IsPush(typ) == typ = "data"

\* a Response line from the worker, handled on table K; id = 0 stands for
\* a message without id.  The step records the type and the data of the
\* line as far as the code reads them: the type when no callback is
\* registered, the data when requestUpdate or the push path takes it.
handleResponse(K, op, id, typ, data) ==
  LET hit == Lookup(id)
      e == [Ev(op, id, "-", << >>, {}, TRUE)
              EXCEPT !.kind = IF id \in Ids THEN cmd[id].kind ELSE "-"]
  IN IF hit # {}
     THEN LET target == CHOOSE i \in hit : TRUE
              owner == cmd[target].owner
          IN Resume(Deliver(K, target), Cont(owner, TRUE, data),
                    [e EXCEPT !.completed = {target},
                              !.data = IF owner \in {"refresh", "poll"}
                                       THEN data ELSE Absent])
     ELSE LET push == IsPush(typ)
              m == IF push /\ registered
                   THEN handleStockData(stockData, summaryData, data)
                   ELSE [merged |-> FALSE, sd |-> stockData, sm |-> summaryData]
          IN /\ stockData' = m.sd
             /\ summaryData' = m.sm
             /\ SetCorr(K)
             /\ ev' = [e EXCEPT !.typ = typ,
                                !.data = IF push THEN data ELSE Absent,
                                !.pushed = push,
                                !.dataNotified = m.merged]
             /\ UNCHANGED <<state, timer>>

\* the worker answers a Command it has read
Respond(id, typ, data) ==
  /\ UNCHANGED <<codecVars, slots, cmdSlots, registered, config, lsVars, delivered>>
  /\ cmd[id].proc # 0
  /\ id \notin answered
  /\ handleResponse([Cur EXCEPT !.ans = @ \cup {id}], "response", id, typ, data)
  /\ UNCHANGED <<startWait, pcVars>>

\* a line without id written by a running worker
Push(typ, data) ==
  /\ UNCHANGED <<codecVars, slots, cmdSlots, registered, config, lsVars, delivered>>
  /\ \E p \in Pids : proc[p] = "alive"
  /\ handleResponse(Cur, "push", 0, typ, data)
  /\ UNCHANGED <<startWait, pcVars>>

(* ------------------ the 'data' listener of stderr ---------------------- *)
\* a stderr listener that hands the line to handleResponse
StderrDataHandled(id, typ, data) ==
  /\ UNCHANGED <<codecVars, slots, cmdSlots, registered, config, lsVars, delivered>>
  /\ \E p \in Pids : proc[p] = "alive"
  /\ handleResponse(Cur, "stderr", id, typ, data)
  /\ UNCHANGED <<startWait, pcVars>>

\* a running worker writes, on stderr, the line of a message with this id
\* (0: none), type and data: console.error, nothing else
StderrData(id, typ, data) ==
  /\ UNCHANGED <<codecVars, slots, cmdSlots, registered, config, lsVars, delivered>>
  /\ \E p \in Pids : proc[p] = "alive"
  /\ ev' = Ev("stderr", id, "-", << >>, {}, FALSE)
  /\ UNCHANGED <<smVars, pcVars, corrVars>>

(* ------------- the 10 s timer armed by sendCommand --------------------- *)
Timeout(id) ==
  /\ UNCHANGED <<codecVars, slots, cmdSlots, registered, config, lsVars, delivered>>
  /\ id \in timeouts
  /\ Resume(Expired(Cur, id), Cont(cmd[id].owner, FALSE, Absent),
            [Ev("timeout", id, "-", << >>, {}, TRUE)
               EXCEPT !.completed = {id}, !.kind = cmd[id].kind])
  /\ UNCHANGED <<startWait, pcVars>>

(* ------------------ worker exit: the 'exit' listeners ------------------ *)
RECURSIVE TakeN(_, _)
TakeN(S, n) == IF n = 0 \/ S = {} THEN {} ELSE {SetMin(S)} \cup TakeN(S \ {SetMin(S)}, n - 1)

RECURSIVE SumWaiters(_, _)
SumWaiters(w, S) == IF S = {} THEN 0 ELSE w[SetMin(S)] + SumWaiters(w, S \ {SetMin(S)})

TasksInFlight == hDelay + SumWaiters(stopWaiters, Pids)

\* handleProcessExit's bound test
RestartsExhausted(rc) == rc >= maxRestarts

\* the 'exit' listener's test on the exit code (nz: neither 0 nor null)
CallsHandleProcessExit(nz, wasKilled) == nz

\* a startDaemon that leaves the counter alone
CountAfterSpawnKeeps(rc, spawned) == rc

\* restartCount after startDaemon has run `spawned` successful spawns
CountAfterSpawn(rc, spawned) == IF spawned > 0 THEN 0 ELSE rc

\* Worker p exits; nz: its exit code is neither 0 nor null.  The listener of
\* setupProcessHandlers runs first, then the once-listeners of every
\* stopDaemon awaiting p, then each awaiting startDaemon spawns in turn:
\* n of these spawns succeed, startOk tells whether start()'s own did.
ExitEvent(p, nz, n, startOk) ==
  LET k == stopWaiters[p] + (IF startWait = p THEN 1 ELSE 0)
      newTask == CallsHandleProcessExit(nz, killed[p]) /\ ~RestartsExhausted(restartCount)
      rc1 == IF newTask THEN restartCount + 1 ELSE restartCount
      prX == [proc EXCEPT ![p] = "exited"]
      h1 == IF k > 0 THEN 0 ELSE pythonProcess
      pr0 == Gc(prX, h1)
      kl0 == GcKilled(prX, killed, h1)
      new == TakeN(FreePids(pr0), n)
      h2 == IF n > 0 THEN SetMax(new) ELSE h1
      pr1 == [q \in Pids |-> IF q \in new THEN "alive" ELSE pr0[q]]
      mine == startWait = p
      hSpawns == n - (IF startOk THEN 1 ELSE 0)
  IN /\ proc[p] = "alive"
     /\ n <= k
     /\ n <= Cardinality(FreePids(pr0))
     /\ IF mine THEN (startOk => n >= 1) /\ (~startOk => n <= k - 1) ELSE ~startOk
     /\ newTask => TasksInFlight - stopWaiters[p] < MaxTasks
     /\ proc' = pr1
     /\ killed' = [q \in Pids |-> IF q \in new THEN FALSE ELSE kl0[q]]
     /\ pythonProcess' = h2
     /\ isConnected' = (n > 0)
     /\ restartCount' = CountAfterSpawn(rc1, n)
     /\ hDelay' = hDelay + (IF newTask THEN 1 ELSE 0)
     /\ stopWaiters' = [stopWaiters EXCEPT ![p] = 0]
     /\ startWait' = IF mine THEN 0 ELSE startWait
     /\ state' = IF mine /\ ~startOk THEN startCatch ELSE state
     /\ SetCorr(IF mine /\ startOk
                THEN \* start() goes on: sendConfig to the current handle
                     sendCommand(Lost(Cur, p), generateId, "set_config", "start", h2, pr1)
                ELSE Lost(Cur, p))
     /\ ev' = [Ev("exit", p, IF nz THEN "nonzero" ELSE "clean",
                  IF mine /\ ~startOk THEN <<startCatch>> ELSE << >>,
                  IF mine /\ startOk THEN {generateId} ELSE {}, TRUE)
                 EXCEPT !.terminal = nz /\ RestartsExhausted(restartCount),
                        !.restart = newTask,
                        !.unexpected = nz /\ ~killed[p],
                        !.spawned = hSpawns,
                        !.payload = IF mine /\ startOk THEN getConfig ELSE 0,
                        !.daemon = IF ~mine THEN "none"
                                   ELSE IF startOk THEN "started" ELSE "failed",
                        !.escaped = @ \/ (mine /\ ~startOk /\ ~Catches("start"))]
     /\ delivered' = [q \in Pids |->
                        IF q \in new
                        THEN (IF mine /\ startOk /\ q = h2 THEN getConfig ELSE 0)
                        ELSE Configured(delivered, pr1)[q]]
     /\ UNCHANGED <<timer, stockData, summaryData, disposed, codecVars, slots, cmdSlots, registered,
                    config, lsVars>>

(* ------- handleProcessExit after its 1 s delay: startDaemon ------------ *)
\* the previous handle was not signalled: stopDaemon and wait for its exit
RestartStopsFirst ==
  /\ UNCHANGED <<codecVars, slots, cmdSlots, registered, config, lsVars, delivered>>
  /\ hDelay > 0
  /\ MustStopFirst(pythonProcess, killed)
  /\ hDelay' = hDelay - 1
  /\ killed' = KillFlags(pythonProcess, proc, killed)
  /\ stopWaiters' = [stopWaiters EXCEPT ![pythonProcess] = @ + 1]
  /\ ev' = Ev("restart", pythonProcess, "stop", << >>, {}, TRUE)
  /\ UNCHANGED <<smVars, pythonProcess, proc, isConnected, restartCount, disposed,
                 corrVars>>

RestartSpawnFails ==
  /\ UNCHANGED <<codecVars, slots, cmdSlots, registered, config, lsVars, delivered>>
  /\ hDelay > 0
  /\ ~MustStopFirst(pythonProcess, killed)
  /\ hDelay' = hDelay - 1
  /\ ev' = Ev("restart", 0, "throw", << >>, {}, TRUE)
  /\ UNCHANGED <<smVars, pythonProcess, proc, killed, isConnected, restartCount,
                 stopWaiters, disposed, corrVars>>

RestartSpawns ==
  /\ UNCHANGED <<codecVars, slots, cmdSlots, registered, config, lsVars>>
  /\ hDelay > 0
  /\ ~MustStopFirst(pythonProcess, killed)
  /\ hDelay' = hDelay - 1
  /\ LET pr0 == Gc(proc, 0)
         kl0 == GcKilled(proc, killed, 0)
     IN /\ FreePids(pr0) # {}
        /\ LET pid == NewPid(pr0)
           IN /\ proc' = [pr0 EXCEPT ![pid] = "alive"]
              /\ delivered' = [Configured(delivered, pr0) EXCEPT ![pid] = 0]
              /\ killed' = [kl0 EXCEPT ![pid] = FALSE]
              /\ pythonProcess' = pid
              /\ ev' = [Ev("restart", pid, "spawn", << >>, {}, TRUE) EXCEPT !.spawned = 1]
  /\ isConnected' = TRUE
  /\ restartCount' = CountAfterSpawn(restartCount, 1)
  /\ UNCHANGED <<smVars, stopWaiters, disposed, corrVars>>

Restart == RestartStopsFirst \/ RestartSpawnFails \/ RestartSpawns

(* ---------------------- PythonClient.dispose() ------------------------- *)
ClientDispose ==
  /\ UNCHANGED <<codecVars, slots, cmdSlots, registered, config, lsVars, delivered>>
  /\ ~disposed
  /\ disposed' = TRUE
  /\ killed' = IF pythonProcess # 0 /\ ~killed[pythonProcess]
               THEN KillFlags(pythonProcess, proc, killed) ELSE killed
  /\ SetCorr(Cleared(Cur))
  /\ ev' = Ev("dispose", 0, "-", << >>, {}, TRUE)
  /\ UNCHANGED <<smVars, pythonProcess, proc, isConnected, restartCount, hDelay,
                 stopWaiters>>

(* ------------- the line codec: stdout 'data', processMessages ---------- *)
\* Bytes on the pipe: two ASCII letters the parser accepts ("a") or rejects
\* ("!"), the record separator, and the two bytes C3 A9 of one non-ASCII
\* character.  Characters of a JavaScript string: the ASCII ones, "E9" for
\* that character, "FFFD" for the replacement character.
Chars == {"a", "!", "LF", "E9"}

Encode(c) == IF c = "E9" THEN <<"C3", "A9">> ELSE <<c>>

RECURSIVE EncodeAll(_)
EncodeAll(cs) == IF cs = << >> THEN << >> ELSE Encode(Head(cs)) \o EncodeAll(Tail(cs))

\* Buffer.toString(): UTF-8 decoding of one chunk on its own; a lead byte
\* without its continuation, or a continuation without its lead, becomes
\* the replacement character
RECURSIVE toString(_)
toString(b) ==
  IF b = << >> THEN << >>
  ELSE IF Head(b) = "C3"
       THEN IF Len(b) >= 2 /\ b[2] = "A9"
            THEN <<"E9">> \o toString(Tail(Tail(b)))
            ELSE <<"FFFD">> \o toString(Tail(b))
       ELSE IF Head(b) = "A9"
            THEN <<"FFFD">> \o toString(Tail(b))
            ELSE <<Head(b)>> \o toString(Tail(b))

Range(s) == {s[i] : i \in 1..Len(s)}

\* String.prototype.split('\n'): one more piece than there are separators
RECURSIVE split(_)
split(s) ==
  IF "LF" \notin Range(s) THEN <<s>>
  ELSE LET i == CHOOSE k \in 1..Len(s) : s[k] = "LF" /\ \A j \in 1..(k - 1) : s[j] # "LF"
       IN <<SubSeq(s, 1, i - 1)>> \o split(SubSeq(s, i + 1, Len(s)))

\* !line.trim(): the alphabet has no white space, a blank line is empty
Blank(line) == line = << >>

\* a parser that accepts every line
JSONparseAcceptsAll(line) == [ok |-> TRUE, value |-> line]

\* JSON.parse: throws on a line holding what the grammar rejects
JSONparse(line) ==
  IF "!" \in Range(line) THEN [ok |-> FALSE, value |-> << >>]
  ELSE [ok |-> TRUE, value |-> line]

\* the loop of processMessages over the complete lines
RECURSIVE Handle(_)
Handle(lines) ==
  IF lines = << >> THEN << >>
  ELSE IF Blank(Head(lines)) THEN Handle(Tail(lines))
       ELSE IF JSONparse(Head(lines)).ok
            THEN <<JSONparse(Head(lines)).value>> \o Handle(Tail(lines))
            ELSE Handle(Tail(lines))

\* processMessages on a buffer: the messages handled, the fragment kept
processMessages(buf) ==
  LET lines == split(buf)
  IN [msgs |-> Handle(SubSeq(lines, 1, Len(lines) - 1)),
      rest |-> lines[Len(lines)]]

\* the stdout 'data' listener on a chunk of the next n bytes
OnData(n) ==
  /\ fed + n <= Len(stream)
  /\ LET chunk == SubSeq(stream, fed + 1, fed + n)
         r == processMessages(messageBuffer \o toString(chunk))
     IN /\ messageBuffer' = r.rest
        /\ handled' = handled \o r.msgs
        /\ cutInside' = (cutInside \/ chunk[n] = "C3")
  /\ fed' = fed + n
  /\ UNCHANGED <<stream, inherited, smVars, pcVars, corrVars, ev, slots, cmdSlots, registered,
                 config, lsVars, delivered>>

StdoutData == \E n \in 1..MaxChunk : OnData(n)

\* the worker's whole output, as text of at most MaxChars characters
Streams == UNION {[1..n -> Chars] : n \in 0..MaxChars}

CodecInit ==
  /\ cmdSlots = MaxCmds
  /\ Constructed
  /\ slots = MaxProcs
  /\ stream \in {EncodeAll(cs) : cs \in Streams}
  /\ fed = 0
  /\ messageBuffer = << >>
  /\ handled = << >>
  /\ cutInside = FALSE
  /\ inherited = << >>

CodecNext == StdoutData

CodecSpec == CodecInit /\ [][CodecNext]_vars

\* the whole output of a worker spawned later, at most MaxNextChars characters
NextStreams == UNION {[1..n -> Chars] : n \in 0..MaxNextChars}

\* startDaemon spawns the next worker and setupProcessHandlers attaches the
\* stdout listener to it: the bytes delivered from now on are those of the
\* new worker, which writes cs; messageBuffer is left as it is
Respawn(cs) ==
  /\ Len(inherited) < MaxRespawns
  /\ stream' = EncodeAll(cs)
  /\ fed' = 0
  /\ handled' = << >>
  /\ cutInside' = FALSE
  /\ inherited' = Append(inherited, messageBuffer)
  /\ UNCHANGED <<messageBuffer, smVars, pcVars, corrVars, ev, slots, cmdSlots, registered,
                 config, lsVars, delivered>>

Respawned == \E cs \in NextStreams : Respawn(cs)

FramingNext == StdoutData \/ Respawned

FramingSpec == CodecInit /\ [][FramingNext]_vars

(* ----------------------------------------------------------------------- *)
Exit ==\E p \in Pids, nz \in BOOLEAN, n \in 0..(MaxTasks + 1), startOk \in BOOLEAN :
          ExitEvent(p, nz, n, startOk)
Response == \E id \in Ids, typ \in ResponseTypes, data \in Payloads : Respond(id, typ, data)
Pushed == \E typ \in {"data", "error"}, data \in Payloads : Push(typ, data)
Expire == \E id \in Ids : Timeout(id)

Next ==
  \/ Start
  \/ Stop
  \/ Refresh
  \/ Tick
  \/ ConfigChange
  \/ Response
  \/ Pushed
  \/ Expire
  \/ Exit
  \/ Restart
  \/ ClientDispose

Spec == Init /\ [][Next]_vars

(* ------------- the lifecycle, with the event loop's fairness ----------- *)
\* the worker answers a Command with a data Response
LifeResponse == \E id \in Ids : Respond(id, "data", List1)

\* a worker that was sent SIGTERM exits
KilledExit == \E p \in Pids, nz \in BOOLEAN, n \in 0..(MaxTasks + 1), startOk \in BOOLEAN :
                killed[p] /\ ExitEvent(p, nz, n, startOk)

LifecycleNext ==
  \/ Start
  \/ Stop
  \/ Refresh
  \/ Tick
  \/ ConfigChange
  \/ LifeResponse
  \/ Expire
  \/ Exit
  \/ Restart

\* armed timers fire (the 10 s deadlines, the 1 s restart delay, the poll
\* interval) and a signalled worker exits; calls, answers and crashes are free
LifecycleSpec ==
  /\ Init
  /\ [][LifecycleNext]_vars
  /\ WF_vars(Expire)
  /\ WF_vars(Restart)
  /\ SF_vars(Tick)
  /\ WF_vars(KilledExit)

(* --------------- the lifecycle of a worker that also logs -------------- *)
Stderr == \E id \in Ids \cup {0}, typ \in {"data", "error"}, data \in {List1, List2} :
            StderrData(id, typ, data)

StderrNext == LifecycleNext \/ Stderr

StderrSpec == Init /\ [][StderrNext]_vars

(* ------------- the lifecycle while the configuration changes ---------- *)
ConfigSaved == \E v \in Configs : ConfigChangeTo(v)

ConfigNext == LifecycleNext \/ ConfigSaved

ConfigSpec == Init /\ [][ConfigNext]_vars

(* ------------- a monitoring session, up to its disposal --------------- *)
\* StateManager.dispose(): the timer, the listeners, the snapshots and the
\* two command registrations go
StateDispose ==
  /\ registered
  /\ registered' = FALSE
  /\ timer' = FALSE
  /\ stockData' = [c \in Codes |-> NoSnap]
  /\ stateListeners' = << >>
  /\ updateListeners' = << >>
  /\ ev' = Ev("dispose", 0, "state", << >>, {}, TRUE)
  /\ UNCHANGED <<state, summaryData, startWait, pcVars, corrVars, codecVars, slots, cmdSlots,
                 config, delivered>>

\* the worker answers a Command with a data Response of any content
SessionResponse == \E id \in Ids, data \in Payloads : Respond(id, "data", data)

SessionNext ==
  \/ Start
  \/ Stop
  \/ Refresh
  \/ Tick
  \/ SessionResponse
  \/ Pushed
  \/ Expire
  \/ KilledExit
  \/ StateDispose

SessionSpec == Init /\ [][SessionNext]_vars

(* ------------------ sessions that follow one another ------------------- *)
\* a run with room for the Commands of two sessions: start(), stop(), the
\* interval timer, the worker's answers, the 10 s timers and the exit of
\* the worker that the next start() kills
IsolationInit ==
  /\ cmdSlots = MaxSessionCmds
  /\ Constructed
  /\ slots = MaxProcs
  /\ stream = << >>
  /\ fed = 0
  /\ messageBuffer = << >>
  /\ handled = << >>
  /\ cutInside = FALSE
  /\ inherited = << >>

IsolationNext ==
  \/ Start
  \/ Stop
  \/ Tick
  \/ LifeResponse
  \/ Expire
  \/ KilledExit

IsolationSpec == IsolationInit /\ [][IsolationNext]_vars

(* ------------------------- the listeners ------------------------------ *)
\* what a listener does when it is called: return, throw, remove itself,
\* or register one more listener
Acts == {"returns", "throws", "removes", "adds"}

Registered(ls) == {ls[i] : i \in 1..Len(ls)}

\* the behaviours of the listeners of an array during one notification
ActsOf(ls) == [Registered(ls) -> Acts]

ActOf(acts, l) == IF l \in DOMAIN acts THEN acts[l] ELSE "returns"

\* Array.prototype.indexOf, counted from 1; 0 when l is not there
indexOf(ls, l) ==
  IF l \in Registered(ls)
  THEN CHOOSE i \in 1..Len(ls) : ls[i] = l /\ \A j \in 1..(i - 1) : ls[j] # l
  ELSE 0

\* removeStateListener / removeUpdateListener: splice(index, 1) if found
removeListener(ls, l) ==
  LET i == indexOf(ls, l)
  IN IF i >= 1 THEN SubSeq(ls, 1, i - 1) \o SubSeq(ls, i + 1, Len(ls)) ELSE ls

\* the listener an "adds" listener registers: the first function that is
\* not registered yet, or itself once more
Added(ls, l) ==
  IF Listeners \ Registered(ls) # {}
  THEN CHOOSE x \in Listeners \ Registered(ls) : \A y \in Listeners \ Registered(ls) : x <= y
  ELSE l

\* the array as listener l leaves it
Left(ls, l, act) ==
  CASE act = "removes" -> removeListener(ls, l)
    [] act = "adds" -> Append(ls, Added(ls, l))
    [] OTHER -> ls

\* a notification loop without try/catch: the first exception ends it
RECURSIVE notifyListenersNoCatch(_, _, _, _)
notifyListenersNoCatch(ls, i, acts, calls) ==
  IF Len(ls) > MaxRegs THEN [ls |-> ls, calls |-> calls, over |-> TRUE]
  ELSE IF i > Len(ls) THEN [ls |-> ls, calls |-> calls, over |-> FALSE]
  ELSE IF ActOf(acts, ls[i]) = "throws"
       THEN [ls |-> ls, calls |-> Append(calls, ls[i]), over |-> FALSE]
       ELSE notifyListenersNoCatch(Left(ls, ls[i], ActOf(acts, ls[i])), i + 1, acts,
                                   Append(calls, ls[i]))

\* notifyStateListeners / notifyUpdateListeners from place i on: for-of
\* over the live array, each call inside its own try/catch.  calls: the
\* listeners called so far; over: the array outgrew MaxRegs.
RECURSIVE notifyListeners(_, _, _, _)
notifyListeners(ls, i, acts, calls) ==
  IF Len(ls) > MaxRegs THEN [ls |-> ls, calls |-> calls, over |-> TRUE]
  ELSE IF i > Len(ls) THEN [ls |-> ls, calls |-> calls, over |-> FALSE]
  ELSE notifyListeners(Left(ls, ls[i], ActOf(acts, ls[i])), i + 1, acts,
                       Append(calls, ls[i]))

addStateListener(l) ==
  /\ Len(stateListeners) < MaxRegs
  /\ stateListeners' = Append(stateListeners, l)
  /\ ev' = Ev("addStateListener", l, "-", << >>, {}, TRUE)
  /\ UNCHANGED <<smVars, pcVars, corrVars, codecVars, slots, cmdSlots, registered, config,
                 updateListeners, delivered>>

removeStateListener(l) ==
  /\ stateListeners' = removeListener(stateListeners, l)
  /\ ev' = Ev("removeStateListener", l, "-", << >>, {}, TRUE)
  /\ UNCHANGED <<smVars, pcVars, corrVars, codecVars, slots, cmdSlots, registered, config,
                 updateListeners, delivered>>

addUpdateListener(l) ==
  /\ Len(updateListeners) < MaxRegs
  /\ updateListeners' = Append(updateListeners, l)
  /\ ev' = Ev("addUpdateListener", l, "-", << >>, {}, TRUE)
  /\ UNCHANGED <<smVars, pcVars, corrVars, codecVars, slots, cmdSlots, registered, config,
                 stateListeners, delivered>>

removeUpdateListener(l) ==
  /\ updateListeners' = removeListener(updateListeners, l)
  /\ ev' = Ev("removeUpdateListener", l, "-", << >>, {}, TRUE)
  /\ UNCHANGED <<smVars, pcVars, corrVars, codecVars, slots, cmdSlots, registered, config,
                 stateListeners, delivered>>

\* setState(newState), as some method of StateManager calls it: the
\* assignment, then notifyStateListeners
setState(newState, acts) ==
  /\ LET r == notifyListeners(stateListeners, 1, acts, << >>)
     IN /\ ~r.over
        /\ stateListeners' = r.ls
        /\ ev' = [Ev("setState", 0, "-", <<newState>>, {}, TRUE)
                    EXCEPT !.calls = r.calls, !.acts = acts]
  /\ state' = newState
  /\ UNCHANGED <<timer, stockData, summaryData, startWait, pcVars, corrVars,
                 codecVars, slots, cmdSlots, registered, config, updateListeners, delivered>>

(* --------- the aggregator alone, fed with lists of any content -------- *)
\* profit, market value and cost basis of a position; the cost basis may
\* be zero or negative
Values == {[profitAmount |-> 25, marketValue |-> 1025, costBasis |-> 1000],
           [profitAmount |-> -50, marketValue |-> 1950, costBasis |-> 2000],
           [profitAmount |-> 10, marketValue |-> 10, costBasis |-> 0],
           [profitAmount |-> -5, marketValue |-> 5, costBasis |-> -1000]}

Snapshots == {[code |-> c, enabled |-> e, profitAmount |-> v.profitAmount,
               marketValue |-> v.marketValue, costBasis |-> v.costBasis] :
                c \in Codes, e \in BOOLEAN, v \in Values}

\* what the trad.onStockData command is run with
StockDataInputs ==
  {Absent, NotArray} \cup
  {[kind |-> "list", items |-> l] : l \in UNION {[1..n -> Snapshots] : n \in 0..MaxItems}}

\* the trad.onStockData command: handleStockData(data); each update
\* listener does, when it is called, what acts says
OnStockDataHeard(data, acts) ==
  /\ registered
  /\ LET m == handleStockData(stockData, summaryData, data)
         r == IF m.merged THEN notifyListeners(updateListeners, 1, acts, << >>)
              ELSE [ls |-> updateListeners, calls |-> << >>, over |-> FALSE]
     IN /\ ~r.over
        /\ stockData' = m.sd
        /\ summaryData' = m.sm
        /\ updateListeners' = r.ls
        /\ ev' = [Ev("stockdata", 0, "-", << >>, {}, TRUE)
                    EXCEPT !.data = data, !.dataNotified = m.merged,
                           !.calls = r.calls,
                           !.acts = IF m.merged THEN acts ELSE << >>]
  /\ UNCHANGED <<state, timer, startWait, pcVars, corrVars, codecVars, slots, cmdSlots,
                 registered, config, stateListeners, delivered>>

OnStockData(data) == \E acts \in ActsOf(updateListeners) : OnStockDataHeard(data, acts)

AggregatorNext == \E data \in StockDataInputs : OnStockData(data)

AggregatorSpec == Init /\ [][AggregatorNext]_vars

(* -------------- the listeners and what notifies them ------------------ *)
AddListener == \E l \in Listeners : addStateListener(l) \/ addUpdateListener(l)
RemoveListener == \E l \in Listeners : removeStateListener(l) \/ removeUpdateListener(l)
StateSet == \E newState \in MonitoringState, acts \in ActsOf(stateListeners) :
              setState(newState, acts)
DataHeard == \E data \in {List1, NotArray} : OnStockData(data)

ListenerNext ==
  \/ AddListener
  \/ RemoveListener
  \/ StateSet
  \/ DataHeard
  \/ StateDispose

ListenerSpec == Init /\ [][ListenerNext]_vars

(* ----- the supervisor alone, with room for a second worker process ----- *)
SupervisorInit ==
  /\ cmdSlots = MaxCmds
  /\ Constructed
  /\ slots = MaxWorkers
  /\ stream = << >>
  /\ fed = 0
  /\ messageBuffer = << >>
  /\ handled = << >>
  /\ cutInside = FALSE
  /\ inherited = << >>

\* start() and stop() of the state machine, the answers and deadlines of
\* their Commands, exits, automatic restarts and dispose()
SupervisorNext ==
  \/ Start
  \/ Stop
  \/ LifeResponse
  \/ Expire
  \/ Exit
  \/ Restart
  \/ ClientDispose

SupervisorSpec == SupervisorInit /\ [][SupervisorNext]_vars

(* ============================== claims ================================= *)
Completions(h) == h.resolved + h.rejected

\* C1: every Command sent through sendCommand completes its caller exactly
\* once, by its Response or by the 10 s timeout, never both and never
\* neither, and its pending entry is removed exactly once: a Command just
\* sent is registered with its deadline armed; a registered entry always has
\* its deadline armed; a deadline is disarmed only by the step that completes
\* the caller; a completed caller has no entry and no deadline left.
C1_CompletedExactlyOnce ==
  [][\A i \in Ids :
       /\ Completions(hist'[i]) <= 1
       /\ hist'[i].removed <= 1
       /\ i \in ev'.sent =>
            i \in pendingRequests' /\ i \in timeouts' /\ hist'[i] = NoHist
       /\ i \in pendingRequests' => i \in timeouts'
       /\ (i \in timeouts /\ i \notin timeouts') => i \in ev'.completed
       /\ i \in ev'.completed =>
            /\ Completions(hist'[i]) = 1
            /\ hist'[i].removed = 1
            /\ i \notin pendingRequests'
            /\ i \notin timeouts'
       /\ (Completions(hist[i]) = 1 /\ i \notin ev'.sent) => hist'[i] = hist[i]
    ]_vars

\* one caller got its Response, another its timeout after dispose() had
\* cleared the table
C1_Witness ==
  /\ disposed
  /\ ev.op = "timeout"
  /\ hist[ev.id] = [resolved |-> 0, rejected |-> 1, removed |-> 1]
  /\ \E j \in Ids : hist[j] = [resolved |-> 1, rejected |-> 0, removed |-> 1]

\* C2: no transitional state is permanent: Starting is eventually followed
\* by Running or Error and Stopping by Stopped, and no other state directly
\* follows Starting or Stopping.
C2_TransitionalStatesEnd ==
  /\ (state = STARTING) ~> (state \in {RUNNING, ERROR})
  /\ (state = STOPPING) ~> (state = STOPPED)
  /\ [][/\ state = STARTING => state' \in {STARTING, RUNNING, ERROR}
        /\ state = STOPPING => state' \in {STOPPING, STOPPED}]_vars

\* C3: start() is accepted from Error as well as from Stopped: called in
\* either state it moves the machine to Starting and runs the startup
\* sequence.
C3_StartAcceptedFromError ==
  [][(state \in {STOPPED, ERROR} /\ ev'.op = "start") =>
       (ev'.accepted /\ ev'.notifs # << >> /\ Head(ev'.notifs) = STARTING)]_vars

\* the step is start() itself or the continuation of a start() that was
\* waiting for the previous worker's exit
ExternalStartStep == ev'.op = "start" \/ (ev'.op = "exit" /\ ev'.sent # {})

\* C4: at most maxRestarts automatic restarts are attempted for consecutive
\* unexpected exits: the count of these exits, which handleProcessExit
\* compares with maxRestarts, is cleared by nothing but an external start(),
\* and once the bound is reached an exit is terminal and starts no restart.
C4_RestartsBounded ==
  [][/\ restartCount' < restartCount => ExternalStartStep
     /\ (ev'.op = "exit" /\ ev'.typ = "nonzero" /\ RestartsExhausted(restartCount))
          => (ev'.terminal /\ ~ev'.restart)]_vars

\* C5: after an unexpected exit (nonzero code, worker not signalled) below
\* the restart bound, the restart policy respawns the worker: eventually the
\* supervisor owns a live worker process again.
C5_UnexpectedExitRespawns ==
  (ev.op = "exit" /\ ev.unexpected /\ ev.restart)
    ~> (pythonProcess # 0 /\ proc[pythonProcess] = "alive")

\* C6: when the worker exits with a nonzero code while the state is Running,
\* the state becomes Error and the state listeners are told; read as weakly
\* as the words allow: not at once but eventually, and unless stop() is
\* accepted first.
C6_NonzeroExitLeadsToError ==
  (ev.op = "exit" /\ ev.typ = "nonzero" /\ state = RUNNING)
    ~> \/ state = ERROR /\ ev.notifs # << >> /\ ev.notifs[Len(ev.notifs)] = ERROR
       \/ ev.op = "stop" /\ ev.accepted

\* C7: the monitoring state survives worker restarts: while an automatic
\* restart is under way a Running machine stays Running, and it ends in
\* Error only when the restarts are exhausted.
C7_StateSurvivesRestart ==
  [][(TasksInFlight > 0 /\ state = RUNNING /\ state' = ERROR) => ev'.terminal]_vars

\* the last step was a Response for an update Command whose caller had
\* already been failed by the timeout
LateUpdateResponse ==
  /\ ev'.op = "response"
  /\ ev'.kind = "update"
  /\ hist[ev'.id].rejected = 1

\* C8 as stated: an update Command without Response within 10 s fails its
\* caller with a timeout and its entry is removed; a Response with that id
\* arriving afterwards is ignored, whatever its kind: it completes no
\* caller, changes no snapshot or Summary and notifies no listener.
C8_LateResponseIgnored ==
  [][/\ (ev'.op = "timeout" /\ ev'.kind = "update") =>
          /\ ev'.completed = {ev'.id}
          /\ hist'[ev'.id].rejected = 1
          /\ ev'.id \notin pendingRequests'
     /\ LateUpdateResponse =>
          /\ ev'.completed = {}
          /\ hist' = hist
          /\ UNCHANGED <<state, stockData, summaryData>>
          /\ ~ev'.dataNotified
          /\ ev'.notifs = << >>]_vars

\* C8 as the code has it: the timeout fails the caller and removes the
\* entry; a Response with that id arriving afterwards completes no caller
\* and changes no monitoring state; unless its kind is data it changes no
\* snapshot or Summary and notifies no listener; of kind data it is handled
\* as an unsolicited push.
C8_LateResponseNeverCompletes ==
  [][/\ (ev'.op = "timeout" /\ ev'.kind = "update") =>
          /\ ev'.completed = {ev'.id}
          /\ hist'[ev'.id].rejected = 1
          /\ ev'.id \notin pendingRequests'
     /\ LateUpdateResponse =>
          /\ ev'.completed = {}
          /\ hist' = hist
          /\ UNCHANGED state
          /\ ev'.notifs = << >>
          /\ ev'.pushed = (ev'.typ = "data")
          /\ ev'.typ # "data" =>
               (UNCHANGED <<stockData, summaryData>> /\ ~ev'.dataNotified)]_vars

\* a Response of kind error arrived for an update Command that had timed out
C8_Witness ==
  /\ ev.op = "response"
  /\ ev.typ = "error"
  /\ ev.kind = "update"
  /\ hist[ev.id] = [resolved |-> 0, rejected |-> 1, removed |-> 1]
  /\ ev.completed = {}
  /\ ~ev.pushed

\* the step handled a Response line: an answer or a line without id
ResponseStep == ev'.op \in {"response", "push"}

\* C9 as stated: a Response whose id is registered is delivered only to its
\* waiting caller and its entry is removed; a data-kind Response whose id is
\* not registered or absent takes the push path and is merged into snapshots
\* and Summary exactly as an update response would be, in every monitoring
\* state and whether or not the poll timer is armed.
C9_PushMergedAsUpdate ==
  [][ResponseStep =>
       IF ev'.id \in pendingRequests
       THEN /\ ev'.completed = {ev'.id}
            /\ ev'.id \notin pendingRequests'
            /\ ~ev'.pushed
       ELSE ev'.typ = "data" =>
              LET u == handleStockData(stockData, summaryData,
                                       requestUpdateData(ev'.data))
              IN /\ ev'.pushed
                 /\ stockData' = u.sd
                 /\ summaryData' = u.sm
                 /\ ev'.dataNotified = u.merged]_vars

\* C9 as the code has it: the same, but only a push that carries data is
\* merged as an update response would be; a push without data changes
\* nothing and notifies nobody, where an update response without data stands
\* for the empty list.
C9_PushWithDataMergedAsUpdate ==
  [][ResponseStep =>
       IF ev'.id \in pendingRequests
       THEN /\ ev'.completed = {ev'.id}
            /\ ev'.id \notin pendingRequests'
            /\ ~ev'.pushed
       ELSE ev'.typ = "data" =>
              LET u == handleStockData(stockData, summaryData,
                                       requestUpdateData(ev'.data))
              IN /\ ev'.pushed
                 /\ IF ev'.data = Absent
                    THEN UNCHANGED <<stockData, summaryData>> /\ ~ev'.dataNotified
                    ELSE /\ stockData' = u.sd
                         /\ summaryData' = u.sm
                         /\ ev'.dataNotified = u.merged]_vars

\* a push was merged, and the listeners told, while monitoring was stopped
\* and the poll timer was not armed
C9_Witness ==
  /\ ev.op = "push"
  /\ ev.pushed
  /\ ev.dataNotified
  /\ ev.data = List2
  /\ state = STOPPED
  /\ ~timer
  /\ summaryData = calculateSummary(stockData)

\* C10: with several Commands outstanding, each Response completes exactly
\* the caller whose Command has the same id, whatever the order of arrival,
\* and never a caller whose Command has another id: the other entries stay
\* registered and their callers uncompleted.
C10_MatchedById ==
  [][ev'.op = "response" =>
       /\ ev'.completed = (IF ev'.id \in pendingRequests THEN {ev'.id} ELSE {})
       /\ \A j \in pendingRequests \ {ev'.id} :
            j \in pendingRequests' /\ hist'[j] = hist[j]]_vars

\* the Response for the Command sent later came first: its caller is
\* completed, the earlier Command is still waiting
C10_Witness ==
  /\ ev.op = "response"
  /\ ev.completed = {2}
  /\ hist[2].resolved = 1
  /\ 1 \in pendingRequests
  /\ Completions(hist[1]) = 0

\* the stream delivered as one chunk to a fresh codec
WholeDelivery == processMessages(toString(stream))

\* C11: however the byte stream is cut into chunks (one cut at any byte
\* offset, one byte per chunk, several records in one chunk), once all of it
\* is delivered the messages handed to handleResponse are those of the
\* delivery as one chunk, in the same order, and the trailing incomplete
\* fragment is retained in the buffer as it is there.
C11_ChunkingInvisible ==
  fed = Len(stream) =>
    /\ handled = WholeDelivery.msgs
    /\ messageBuffer = WholeDelivery.rest

\* the complete records of the bytes delivered so far
RecordsFed ==
  LET pieces == split(SubSeq(stream, 1, fed))
  IN SubSeq(pieces, 1, Len(pieces) - 1)

\* a record the parser accepts: not blank, nothing the grammar rejects
WellFormed(rec) == rec # << >> /\ "!" \notin Range(rec)

WellFormedFed == SelectSeq(RecordsFed, WellFormed)

\* C12: malformed records are dropped and nothing else is: the messages
\* handed to handleResponse are the well-formed records among the complete
\* records delivered so far, each once and in stream order, whatever
\* malformed or blank records stand between them; each is the record's own
\* text unless a chunk boundary fell inside a multi-byte character.
C12_MalformedDropped ==
  /\ Len(handled) = Len(WellFormedFed)
  /\ ~cutInside =>
       handled = [i \in 1..Len(WellFormedFed) |->
                    JSONparse(toString(WellFormedFed[i])).value]

\* a malformed record, then a well-formed one, all delivered: one message
\* handled, nothing left in the buffer
C12_Witness ==
  /\ stream = <<"!", "LF", "a", "LF">>
  /\ fed = 4
  /\ handled = << <<"a">> >>
  /\ messageBuffer = << >>

\* the step in which start() has spawned the worker and written set_config:
\* start() itself, or its continuation once the previous worker has exited
StartSendsConfig == ev'.op \in {"start", "exit"} /\ ev'.sent # {}

\* the step in which the worker's answer to that set_config resumes start()
StartConfigAnswered ==
  /\ ev'.op = "response"
  /\ ev'.completed # {}
  /\ cmd[ev'.id].owner = "start"

\* C13: start() on Stopped, with a worker that spawns and answers
\* set_config, goes through Starting and ends in Running: the step that
\* spawns leaves the state Starting, the timer unarmed and exactly one
\* Command sent, a set_config; nothing else is sent while Starting; the step
\* that takes the answer notifies Running and nothing else, arms the poll
\* timer and sends exactly one Command, the initial update.
C13_StartReachesRunning ==
  [][/\ StartSendsConfig =>
          /\ state' = STARTING
          /\ ~timer'
          /\ Cardinality(ev'.sent) = 1
          /\ \A i \in ev'.sent : cmd'[i].kind = "set_config" /\ cmd'[i].owner = "start"
     /\ (state = STARTING /\ ~StartSendsConfig /\ ~StartConfigAnswered) => ev'.sent = {}
     /\ StartConfigAnswered =>
          /\ state = STARTING
          /\ state' = RUNNING
          /\ ev'.notifs = <<RUNNING>>
          /\ timer'
          /\ Cardinality(ev'.sent) = 1
          /\ \A i \in ev'.sent : cmd'[i].kind = "update" /\ cmd'[i].owner = "poll"]_vars

\* the step in which the startDaemon call of start() returned false
StartDaemonFailed == ev'.daemon = "failed"

PauseCompleted ==
  /\ ev'.op \in {"response", "timeout"}
  /\ ev'.completed # {}
  /\ cmd[ev'.id].owner = "stop"

\* C15: stop() from Running goes through Stopping and ends in Stopped with
\* the poll timer disarmed, whether pause is answered, cannot be sent or
\* times out: the accepted stop() notifies Stopping first and disarms the
\* timer, and is Stopped at once when pause cannot be sent; the completion
\* of pause, by Response or by timeout, notifies Stopped; Stopping is
\* followed by nothing but Stopped, never by Error, and always by Stopped in
\* the end; from the accepted stop() on the timer stays disarmed while the
\* machine is Stopping or Stopped, so no tick issues an update.
C15_StopEndsInStopped ==
  /\ [][/\ (ev'.op = "stop" /\ ev'.accepted) =>
             /\ state = RUNNING
             /\ ~timer'
             /\ IF ev'.sent = {}
                THEN state' = STOPPED /\ ev'.notifs = <<STOPPING, STOPPED>>
                ELSE /\ state' = STOPPING
                     /\ ev'.notifs = <<STOPPING>>
                     /\ \A i \in ev'.sent : cmd'[i].kind = "pause"
        /\ PauseCompleted =>
             state = STOPPING /\ state' = STOPPED /\ ev'.notifs = <<STOPPED>>
        /\ state = STOPPING => state' \in {STOPPING, STOPPED}
        /\ (state' \in {STOPPING, STOPPED} /\ ev'.op = "tick") => ev'.sent = {}]_vars
  /\ [](state \in {STOPPING, STOPPED} => ~timer)
  /\ (state = STOPPING) ~> (state = STOPPED)

\* pause was never answered: its timeout ended stop() in Stopped
C15_Witness ==
  /\ ev.op = "timeout"
  /\ ev.kind = "pause"
  /\ ev.notifs = <<STOPPED>>
  /\ state = STOPPED
  /\ ~timer

\* the step in which the update Command of refresh() fails: sendCommand
\* refuses it, or its 10 s deadline passes
RefreshFailed ==
  \/ ev'.op = "refresh" /\ ev'.accepted /\ ev'.sent = {}
  \/ ev'.op = "timeout" /\ ev'.completed # {} /\ cmd[ev'.id].owner = "refresh"

\* the step in which the update Command of refresh() is answered
RefreshAnswered ==
  /\ ev'.op = "response"
  /\ ev'.completed # {}
  /\ cmd[ev'.id].owner = "refresh"

\* what a successful refresh() does with the data of the Response
RefreshMerges ==
  LET u == handleStockData(stockData, summaryData, requestUpdateData(ev'.data))
  IN /\ stockData' = u.sd
     /\ summaryData' = u.sm
     /\ ev'.dataNotified = u.merged
     /\ ev'.data.kind = "list" => ev'.dataNotified
     /\ UNCHANGED state
     /\ ev'.notifs = << >>

PollFailed ==
  \/ ev'.op = "tick" /\ ev'.accepted /\ ev'.sent = {}
  \/ ev'.op = "timeout" /\ ev'.completed # {} /\ cmd[ev'.id].owner = "poll"

\* C17: a tick issues an update Command only if the state is Running at the
\* tick, and otherwise does nothing; when a timer-driven update fails while
\* the state is still Running the machine goes to Error and the state
\* listeners are told; when the state is no longer Running as the failure
\* arrives, the state is unchanged and nobody is told.
C17_TickOnlyWhileRunning ==
  [][/\ ev'.op = "tick" =>
          IF state = RUNNING
          THEN /\ ev'.accepted
               /\ Cardinality(ev'.sent) <= 1
               /\ \A i \in ev'.sent : cmd'[i].kind = "update" /\ cmd'[i].owner = "poll"
          ELSE /\ ~ev'.accepted
               /\ ev'.sent = {}
               /\ UNCHANGED <<smVars, pcVars, corrVars>>
     /\ PollFailed =>
          IF state = RUNNING
          THEN state' = ERROR /\ ev'.notifs = <<ERROR>>
          ELSE state' = state /\ ev'.notifs = << >>]_vars

\* a poll timed out while the machine was Running: it is in Error, and the
\* interval is still armed
C17_Witness ==
  /\ ev.op = "timeout"
  /\ ev.kind = "update"
  /\ ev.notifs = <<ERROR>>
  /\ state = ERROR
  /\ timer

\* the call returned at once: nothing but the record of the step changes
ReturnsAtOnce ==
  /\ ~ev'.accepted
  /\ ev'.notifs = << >>
  /\ ev'.sent = {}
  /\ UNCHANGED <<smVars, pcVars, corrVars>>

\* C18: start() while Starting, Running or Stopping, stop() outside Running
\* and refresh() outside Running are no-ops: they change neither the state
\* nor the poll timer, send no Command, call nothing of the supervisor
\* (its process handle, flags and counters are untouched) and notify no
\* state listener.
C18_NoOpOutsideValidState ==
  [][/\ (ev'.op = "start" /\ state \in {STARTING, RUNNING, STOPPING}) => ReturnsAtOnce
     /\ (ev'.op = "stop" /\ state # RUNNING) => ReturnsAtOnce
     /\ (ev'.op = "refresh" /\ state # RUNNING) => ReturnsAtOnce]_vars

\* start() was called while a stop() was waiting for the answer to pause,
\* and returned at once
C18_Witness ==
  /\ ev.op = "start"
  /\ ~ev.accepted
  /\ state = STOPPING
  /\ \E i \in pendingRequests : cmd[i].kind = "pause"

\* the step had something thrown inside start(), stop(), refresh(), the
\* interval callback or handleConfigChange: a Command refused by
\* sendCommand or timed out, a startDaemon that failed, a listener called
ThrownInside ==
  \/ ev'.op \in {"start", "stop", "refresh", "tick", "config"} /\ ev'.accepted /\ ev'.sent = {}
  \/ ev'.op = "timeout" /\ ev'.completed # {}
  \/ ev'.daemon = "failed"
  \/ ev'.notifs # << >>
  \/ ev'.dataNotified

ExpectedExit ==
  /\ ev'.op = "exit"
  /\ ev'.typ = "clean" \/ killed[ev'.id]

\* C20: only unexpected exits trigger the restart policy: an exit with code
\* 0, and any exit of a worker the supervisor has stopped, whatever its
\* code, neither increments the restart counter nor schedules an automatic
\* restart.
C20_ExpectedExitNoRestart ==
  [][ExpectedExit =>
       /\ ~ev'.restart
       /\ hDelay' <= hDelay
       /\ restartCount' <= restartCount]_vars

Alive == {p \in Pids : proc[p] = "alive"}

\* C21: startDaemon spawns a worker only after the previous one has exited:
\* at most one worker process is alive at any time, and a live worker is
\* the one the process handle refers to.
C21_OneWorkerAlive ==
  /\ Cardinality(Alive) <= 1
  /\ \A p \in Alive : pythonProcess = p

\* C22: without a live worker (never started, stopped, or exited on its
\* own, cleanly or not) sendCommand fails at once: every Command a step
\* registers in the pending table was written to a worker process that is
\* alive.
C22_NoSendWithoutWorker ==
  [][\A i \in ev'.sent :
       /\ i \in pendingRequests'
       /\ cmd'[i].proc # 0
       /\ proc'[cmd'[i].proc] = "alive"]_vars

\* the step in which a startDaemon call found nothing to stop and its spawn
\* threw: the call of start(), or the one of a restart task
SpawnThrewAtOnce ==
  \/ ev'.op = "start" /\ ev'.daemon = "failed"
  \/ ev'.op = "restart" /\ ev'.typ = "throw"

\* the step in which the startDaemon call of start() had stopped the
\* previous worker, saw it exit, and its spawn threw
SpawnThrewAfterStop == ev'.op = "exit" /\ ev'.daemon = "failed"

\* the step in which a startDaemon call spawned a worker
SpawnSucceeded ==
  \/ ev'.daemon = "started"
  \/ ev'.spawned > 0

CallsStopDaemon ==
  \/ ev'.op = "start" /\ ev'.daemon = "waits"
  \/ ev'.op = "restart" /\ ev'.typ = "stop"

\* C24: a stopDaemon call made while no worker process is running returns
\* at once (nothing is left waiting for an exit), signals nothing and
\* leaves the supervisor as it was; a call made on a running worker
\* signals it, and the exit of a worker some stopDaemon call is waiting
\* for leaves, before anything is spawned, no handle and no connection.
C24_StopDaemonIdempotent ==
  [][/\ (CallsStopDaemon /\ Alive = {}) =>
          /\ startWait' = 0
          /\ stopWaiters' = stopWaiters
          /\ UNCHANGED <<pythonProcess, proc, killed, isConnected, restartCount,
                         pendingRequests>>
     /\ (CallsStopDaemon /\ Alive # {}) =>
          /\ pythonProcess \in Alive
          /\ killed'[pythonProcess]
     /\ (ev'.op = "exit" /\ ev'.daemon = "failed" /\ ev'.spawned = 0) =>
          (pythonProcess' = 0 /\ ~isConnected')]_vars

C26_ConfigChangeSendsInRunning ==
  [][/\ (ev'.op = "config" /\ state = RUNNING) =>
          /\ Cardinality(ev'.sent) = 1
          /\ \A i \in ev'.sent : i \in pendingRequests' /\ cmd'[i].kind = "set_config"
          /\ ev'.payload = config'
     /\ (ev'.op = "config" /\ state # RUNNING) => ev'.sent = {}
     /\ ev'.daemon = "started" =>
          /\ Cardinality(ev'.sent) = 1
          /\ \A i \in ev'.sent : cmd'[i].kind = "set_config"
          /\ ev'.payload = config']_vars

\* the step in which the set_config Command of a configuration change in
\* Running fails: sendCommand refuses it, or its 10 s deadline passes
ConfigCommandFailed ==
  \/ ev'.op = "config" /\ state = RUNNING /\ ev'.sent = {}
  \/ ev'.op = "timeout" /\ cmd[ev'.id].owner = "config"

\* C27: when the set_config Command of a configuration change made in
\* Running fails or times out, the monitoring state, the poll timer, the
\* snapshots and the Summary stay as they are and no listener is notified.
C27_ConfigFailureChangesNothing ==
  [][ConfigCommandFailed =>
       /\ UNCHANGED <<state, timer, stockData, summaryData>>
       /\ ev'.notifs = << >>
       /\ ~ev'.dataNotified]_vars

\* the set_config Command of a configuration change has timed out and
\* monitoring runs on, its timer armed
C27_Witness ==
  /\ ev.op = "timeout"
  /\ ev.kind = "set_config"
  /\ ev.completed # {}
  /\ state = RUNNING
  /\ timer

\* C28: whenever a Summary exists, its three totals are the sums of the
\* fields over the enabled snapshots now stored, stockCount is the number
\* of stored snapshots and enabledCount the number of enabled ones.
C28_SummaryMatchesSnapshots ==
  summaryData.present =>
    /\ summaryData.totalProfit = SumOver(Enabled(stockData), stockData, "profitAmount")
    /\ summaryData.totalMarketValue = SumOver(Enabled(stockData), stockData, "marketValue")
    /\ summaryData.totalCostBasis = SumOver(Enabled(stockData), stockData, "costBasis")
    /\ summaryData.stockCount = Cardinality(Stored(stockData))
    /\ summaryData.enabledCount = Cardinality(Enabled(stockData))

\* what the snapshot stored for code c adds to the total of `field`
Part(c, field) ==
  IF stockData[c] # NoSnap /\ stockData[c].enabled THEN stockData[c][field] ELSE 0

EnabledProfit == Part("A", "profitAmount") + Part("B", "profitAmount")
EnabledCost == Part("A", "costBasis") + Part("B", "costBasis")

Places(items, c) == {i \in 1..Len(items) : items[i].code = c}

\* the last snapshot for code c in a list that has one
LastFor(items, c) ==
  items[CHOOSE i \in Places(items, c) : \A j \in Places(items, c) : j <= i]

C31_ClearedOnDisposal ==
  [][/\ ev'.op \in {"stop", "start", "timeout", "exit", "restart"} =>
          UNCHANGED <<stockData, summaryData>>
     /\ ~registered' =>
          /\ Stored(stockData') = {}
          /\ ~summaryData'.present]_vars

\* how many times l stands in a sequence of listeners
Count(seq, l) == Cardinality({i \in 1..Len(seq) : seq[i] = l})

\* C32: a state transition calls every state listener registered when it
\* happens exactly once for each of its registrations, and a merged data
\* refresh does the same with the data listeners, whatever the listeners
\* do when they are called (return, throw, remove themselves, register a
\* listener).
C32_EveryListenerNotifiedOnce ==
  [][/\ ev'.op = "setState" =>
          \A l \in Registered(stateListeners) :
             Count(ev'.calls, l) = Count(stateListeners, l)
     /\ (ev'.op = "stockdata" /\ ev'.dataNotified) =>
          \A l \in Registered(updateListeners) :
             Count(ev'.calls, l) = Count(updateListeners, l)]_vars

\* the same behaviours, with a plain return where a listener throws
Calm(acts) == [l \in DOMAIN acts |-> IF acts[l] = "throws" THEN "returns" ELSE acts[l]]

\* the calls a notification of array ls makes when nobody throws
CalmCalls(ls, acts) == notifyListeners(ls, 1, Calm(acts), << >>).calls

\* C33: a listener that throws changes nothing in a notification: the
\* same listeners are called, in the same order, as if it had returned
\* (all of them, in order, when no listener touches the array), the state
\* is the one that was set, and snapshots and Summary are those of the
\* merge.
C33_ThrowingListenerIsolated ==
  [][/\ ev'.op = "setState" =>
          /\ ev'.calls = CalmCalls(stateListeners, ev'.acts)
          /\ (\A l \in DOMAIN ev'.acts : ev'.acts[l] \in {"returns", "throws"}) =>
                (ev'.calls = stateListeners /\ stateListeners' = stateListeners)
          /\ state' = ev'.notifs[1]
          /\ UNCHANGED <<stockData, summaryData, timer>>
     /\ (ev'.op = "stockdata" /\ ev'.dataNotified) =>
          /\ ev'.calls = CalmCalls(updateListeners, ev'.acts)
          /\ (\A l \in DOMAIN ev'.acts : ev'.acts[l] \in {"returns", "throws"}) =>
                (ev'.calls = updateListeners /\ updateListeners' = updateListeners)
          /\ stockData' = SetAll(stockData, ev'.data.items)
          /\ summaryData' = calculateSummary(stockData')
          /\ UNCHANGED <<state, timer>>]_vars

\* two state listeners are registered, the first one called has thrown and
\* the second was called all the same
C33_Witness ==
  /\ ev.op = "setState"
  /\ ev.calls = <<1, 2>>
  /\ ev.acts[1] = "throws"
  /\ state = ev.notifs[1]

\* array ls2 is array ls less one registration of l, if ls has one
Detached(ls, ls2, l) ==
  /\ Count(ls2, l) = (IF Count(ls, l) > 0 THEN Count(ls, l) - 1 ELSE 0)
  /\ \A x \in Listeners \ {l} : Count(ls2, x) = Count(ls, x)
  /\ Count(ls, l) = 0 => ls2 = ls

\* C34: a removal takes exactly one registration of that listener out of
\* its array and nothing else, and none when the listener is not
\* registered; and every notification calls each listener that is
\* registered and none that is neither registered before nor after it.
C34_RemovalDetachesOne ==
  [][/\ ev'.op = "removeStateListener" =>
          /\ Detached(stateListeners, stateListeners', ev'.id)
          /\ UNCHANGED <<updateListeners, smVars>>
     /\ ev'.op = "removeUpdateListener" =>
          /\ Detached(updateListeners, updateListeners', ev'.id)
          /\ UNCHANGED <<stateListeners, smVars>>
     /\ ev'.op = "setState" =>
          /\ \A l \in Registered(stateListeners) : Count(ev'.calls, l) >= 1
          /\ Registered(ev'.calls) \subseteq
               Registered(stateListeners) \cup Registered(stateListeners')
     /\ (ev'.op = "stockdata" /\ ev'.dataNotified) =>
          /\ \A l \in Registered(updateListeners) : Count(ev'.calls, l) >= 1
          /\ Registered(ev'.calls) \subseteq
               Registered(updateListeners) \cup Registered(updateListeners')]_vars

\* the update Commands that await their Response
UpdatesOutstanding == {i \in pendingRequests : cmd[i].kind = "update"}

\* C35: at most one update Command is outstanding at any time.
C35_PollsSerialized == Cardinality(UpdatesOutstanding) <= 1


\* the set_config Commands that are waiting for their Response
ConfigOutstanding == {i \in pendingRequests : cmd[i].kind = "set_config"}

\* C36: whenever the state is Running and no set_config Command is
\* outstanding, the configuration most recently delivered to the live worker
\* is the current configuration of the Configuration Provider, also after a
\* configuration change during start() and after an automatic restart.
C36_ConfigInSync ==
  (state = RUNNING /\ ConfigOutstanding = {} /\ pythonProcess \in Alive)
    => delivered[pythonProcess] = config


\* C37: the failure or timeout of an update Command that was sent before a
\* stop() never moves the session begun by a later start() from Running to
\* Error.
C37_SessionsIsolated ==
  [][\A i \in stale :
       (i \in ev'.completed /\ cmd[i].kind = "update" /\ state = RUNNING)
         => state' = RUNNING]_vars


\* the records the current worker has written completely
Written == LET lines == split(toString(stream))
           IN SubSeq(lines, 1, Len(lines) - 1)

\* all the output of a worker spawned after the first has been delivered, in
\* chunks that end between characters, and it holds a complete record
LaterWorkerHeard ==
  /\ inherited # << >>
  /\ fed = Len(stream)
  /\ ~cutInside
  /\ Written # << >>

\* C38: the output of a worker spawned later is framed on its own: a
\* fragment the previous worker left in the message buffer is not put in
\* front of it, so its first complete record, and every one after it, is
\* parsed as the worker wrote it.
C38_FramedIndependently ==
  LaterWorkerHeard => handled = Handle(Written)


\* C39: after dispose() of the supervisor the restart policy spawns no
\* worker: neither a handleProcessExit that was waiting out its delay nor
\* the exit of the worker that dispose() killed leads to a spawn.
C39_NoRestartAfterDispose ==
  [][disposed => ev'.spawned = 0]_vars

\* an error Response arrives that carries the id of update Command i,
\* which is outstanding
ErrorAnswersUpdate(i) ==
  /\ i \in pendingRequests
  /\ cmd[i].kind = "update"
  /\ \E data \in Payloads : Respond(i, "error", data)

\* C40: an error Response that carries the id of an outstanding update
\* Command makes that poll or refresh fail: nothing is merged and no update
\* listener is notified, and a poll in Running moves the state to Error.
C40_ErrorResponseFailsUpdate ==
  [][\A i \in Ids :
       ErrorAnswersUpdate(i)
         => /\ ~ev'.dataNotified
            /\ stockData' = stockData
            /\ (cmd[i].owner = "poll" /\ state = RUNNING) => state' = ERROR]_vars

====
